---- MODULE Spec2Model ----
(***************************************************************************)
(* Log-derived state of the RSDashboard terminal dashboard                 *)
(* (src/RS_Dash_Consolidated.py; src/RSDash.py holds the same code):       *)
(*   - pending_orders, maintained by update_pending_orders,                *)
(*   - nasdaq_alerts,  maintained by update_nasdaq_alerts.                 *)
(* The application log is written by another process; the dashboard        *)
(* re-reads the whole file on every refresh tick.                          *)
(*                                                                         *)
(* A log line is modelled by the text fields the regular expressions and   *)
(* substring tests of the code look at.  Letter case is kept in the        *)
(* fields, because the patterns are case-sensitive while the keys are      *)
(* case-normalised afterwards.                                             *)
(***************************************************************************)
EXTENDS Integers, Sequences, FiniteSets, Bags, TLC

VARIABLES
    log_exists,      \* os.path.exists(APP_LOG_FILE)
    app_log,         \* content of APP_LOG_FILE: a sequence of lines
    pending_orders,  \* global dict: key <<action, ticker, broker>> -> order details
    nasdaq_alerts,   \* global deque(maxlen=5) of alert messages
    pc,              \* position of the refresh loop inside the running function
    lines,           \* local `lines = f.readlines()` of the running function
    i,               \* local index `i` of update_nasdaq_alerts (1-based here)
    before,          \* the global the running function updates (pending_orders,
                     \* nasdaq_alerts, broker_changes, top_holdings_changes), as it
                     \* was when the function was entered
    broker_changes,  \* global dict: (Broker Name, Broker Number) -> change entry
    top_holdings_changes, \* global dict: (broker, stock) -> change entry
    now,             \* the clock, in seconds: what time.time() returns
    grouped,         \* local `grouped`: the aggregated rows the running function observes
    rows,            \* local `broker_rows` / `rows`: the rows in presentation order
    table,           \* rows of the table build_pending_orders_table returns
    selected_broker, \* global: the broker the operator filters on, "None" for all
    command_history, \* global list: the commands entered in the command window
    last_logs        \* global deque(maxlen=5) of RSViewer and RSWatch: the log lines shown

trackerVars == <<broker_changes, top_holdings_changes, now, grouped, rows>>
logVars == <<log_exists, app_log, pending_orders, nasdaq_alerts, lines, i>>
threadVars == <<selected_broker, command_history>>

vars == <<log_exists, app_log, pending_orders, nasdaq_alerts, pc, lines, i, before,
          broker_changes, top_holdings_changes, now, grouped, rows, table,
          selected_broker, command_history, last_logs>>

(***************************************************************************)
(* Bounds of the model                                                     *)
(***************************************************************************)
MaxLog == 2        \* longest order log, in lines
MaxChunks == 6     \* longest alert log, in appended chunks

(***************************************************************************)
(* Program constants                                                       *)
(***************************************************************************)
ALERTS_MAXLEN == 5

(***************************************************************************)
(* Text helpers: str.lower() and str.upper() on the words of the model     *)
(***************************************************************************)
Lower(s) ==
    CASE s = "BUY"  -> "buy"
      [] s = "SELL" -> "sell"
      [] s = "AAPL" -> "aapl"
      [] s = "MSFT" -> "msft"
      [] s = "ACME" -> "acme"
      [] s = "ZETA" -> "zeta"
      [] OTHER      -> s

Upper(s) ==
    CASE s = "buy"  -> "BUY"
      [] s = "sell" -> "SELL"
      [] s = "aapl" -> "AAPL"
      [] s = "msft" -> "MSFT"
      [] s = "acme" -> "ACME"
      [] s = "zeta" -> "ZETA"
      [] OTHER      -> s

\* a "YYYY-MM-DD HH:MM:SS" text, kept by its numeric fields
Stamp(y, mo, d, h, mi, s) == [year |-> y, month |-> mo, day |-> d, hour |-> h, minute |-> mi, second |-> s]

T1 == Stamp(2024, 1, 5, 9, 30, 0)
T2 == Stamp(2024, 11, 15, 14, 5, 0)
\* not a date: month 13
T3 == Stamp(2024, 13, 5, 9, 30, 0)

(***************************************************************************)
(* Timestamp rendering: datetime.strptime(.., "%Y-%m-%d %H:%M:%S") and     *)
(* strftime("%m/%d/%Y %I:%M %p").lstrip("0"); a text is a sequence of      *)
(* characters                                                              *)
(***************************************************************************)
Digit(n) == <<"0", "1", "2", "3", "4", "5", "6", "7", "8", "9">>[n + 1]
Two(n) == <<Digit((n \div 10) % 10), Digit(n % 10)>>
Four(n) == <<Digit((n \div 1000) % 10), Digit((n \div 100) % 10)>> \o Two(n % 100)

LeapYear(y) == (y % 4 = 0 /\ y % 100 # 0) \/ y % 400 = 0
DaysIn(y, m) ==
    IF m = 2 THEN (IF LeapYear(y) THEN 29 ELSE 28)
    ELSE IF m \in {4, 6, 9, 11} THEN 30 ELSE 31

\* strptime succeeds
ValidStamp(st) ==
    /\ st.year \in 1..9999
    /\ st.month \in 1..12
    /\ st.day \in 1..DaysIn(st.year, st.month)
    /\ st.hour \in 0..23
    /\ st.minute \in 0..59
    /\ st.second \in 0..61

Hour12(h) == IF h % 12 = 0 THEN 12 ELSE h % 12
Strftime(st) ==
    Two(st.month) \o <<"/">> \o Two(st.day) \o <<"/">> \o Four(st.year) \o <<" ">>
        \o Two(Hour12(st.hour)) \o <<":">> \o Two(st.minute) \o <<" ">>
        \o (IF st.hour < 12 THEN <<"A", "M">> ELSE <<"P", "M">>)

RECURSIVE LStripZero(_)
LStripZero(t) == IF t # <<>> /\ Head(t) = "0" THEN LStripZero(Tail(t)) ELSE t

DateStr(st) == Four(st.year) \o <<"-">> \o Two(st.month) \o <<"-">> \o Two(st.day)
TimeStr(st) == Two(st.hour) \o <<":">> \o Two(st.minute) \o <<":">> \o Two(st.second)

(***************************************************************************)
(* Order lines                                                             *)
(*   "Scheduled <action> order: <t1,t2,..>, quantity: <q>, broker: <b>,    *)
(*    time: <time>"                                                        *)
(*   "Sent command: !rsa <action> <q> <ticker> [<broker>]"                 *)
(* broker = "" in a Sent line: the line has no broker token.               *)
(***************************************************************************)
SchedLine(a, ts, q, b, t) == [kind |-> "sched", action |-> a, tickers |-> ts, quantity |-> q, broker |-> b, time |-> t]
SentLine(a, q, t, b) == [kind |-> "sent", action |-> a, quantity |-> q, ticker |-> t, broker |-> b]
OtherLine == [kind |-> "other"]

OrderLines ==
    { SchedLine("buy", <<"AAPL", "MSFT">>, "10", "acme", T1),
      SchedLine("buy", <<"aapl">>, "20", "ACME", T2),
      SchedLine("buy", <<"AAPL">>, "5", "zeta", T2),
      SchedLine("sell", <<"AAPL">>, "5", "zeta", T1),
      SchedLine("sell", <<"AAPL">>, "5", "acme", T3),
      SentLine("buy", "20", "aapl", "ACME"),
      SentLine("BUY", "10", "AAPL", "acme"),
      SentLine("buy", "10", "AAPL", ""),
      SentLine("sell", "5", "AAPL", "zeta"),
      SentLine("buy", "10", "MSFT", "acme"),
      OtherLine }

(***************************************************************************)
(* update_pending_orders                                                   *)
(***************************************************************************)
EmptyOrders == [k \in {} |-> {}]

\* a pattern whose broker group may be empty
SchedMatchAnyBroker(l) ==
    /\ l.kind = "sched"
    /\ l.action \in {"buy", "sell"}
    /\ Len(l.tickers) >= 1
\* sched_pattern.search(line): the direction alternative (buy|sell) is matched
\* case-sensitively, the ticker list and the broker need one character at least
SchedMatch(l) ==
    /\ l.kind = "sched"
    /\ l.action \in {"buy", "sell"}
    /\ Len(l.tickers) >= 1
    /\ l.broker # ""

\* tickers = [t.strip().upper() for t in m.group(2).split(",") if t.strip()]
SchedTickersFirstOnly(l) == <<Upper(l.tickers[1])>>
SchedTickers(l) == [n \in 1..Len(l.tickers) |-> Upper(l.tickers[n])]

\* the key carries the broker as written, the stored dict the lowered broker
SchedKeyRawBroker(l, n) == <<Lower(l.action), SchedTickers(l)[n], l.broker>>

\* key = (action, ticker, broker_field) of the n-th ticker of a Scheduled line
SchedKey(l, n) == <<Lower(l.action), SchedTickers(l)[n], Lower(l.broker)>>

\* the dict stored under the key
OrderDetailsRawTicker(l, n) ==
    [quantity |-> l.quantity, time |-> l.time, action |-> Lower(l.action),
     ticker |-> l.tickers[n], broker |-> Lower(l.broker)]
OrderDetails(l, n) ==
    [quantity |-> l.quantity, time |-> l.time, action |-> Lower(l.action),
     ticker |-> SchedTickers(l)[n], broker |-> Lower(l.broker)]

\* if key not in pending_orders: pending_orders[key] = {...}
InsertOverwrite(po, key, details) == (key :> details) @@ po
InsertIfAbsent(po, key, details) ==
    IF key \in DOMAIN po THEN po ELSE (key :> details) @@ po

\* the loop over the tickers of a line stops at its first insertion
RECURSIVE InsertTickersUntilInserted(_, _, _)
InsertTickersUntilInserted(po, l, n) ==
    IF n > Len(SchedTickers(l)) THEN po
    ELSE IF SchedKey(l, n) \in DOMAIN po
         THEN InsertTickersUntilInserted(po, l, n + 1)
         ELSE InsertIfAbsent(po, SchedKey(l, n), OrderDetails(l, n))

\* for ticker in tickers: ...   (tickers n..end of one matched line)
RECURSIVE InsertTickers(_, _, _)
InsertTickers(po, l, n) ==
    IF n > Len(SchedTickers(l)) THEN po
    ELSE InsertTickers(InsertIfAbsent(po, SchedKey(l, n), OrderDetails(l, n)), l, n + 1)

\* first loop `for line in lines` of update_pending_orders
RECURSIVE ScheduledLoop(_, _)
ScheduledLoop(po, ls) ==
    IF ls = <<>> THEN po
    ELSE ScheduledLoop(IF SchedMatch(Head(ls)) THEN InsertTickers(po, Head(ls), 1) ELSE po, Tail(ls))

ScheduledPassFromScratch(po, ls) == ScheduledLoop(EmptyOrders, ls)
ScheduledPass(po, ls) == ScheduledLoop(po, ls)

\* comp_pattern.search(line)
CompMatch(l) ==
    /\ l.kind = "sent"
    /\ l.action \in {"buy", "sell"}

\* key = (action, ticker, broker_field) of a Sent-command line
CompKey(l) == <<Lower(l.action), Upper(l.ticker), Lower(l.broker)>>

\* if key in pending_orders: del pending_orders[key]
Without(po, ks) == [k \in DOMAIN po \ ks |-> po[k]]
RemoveNothing(po, key) == po
RemoveAnyBrokerWhenEmpty(po, key) ==
    IF key[3] = ""
    THEN Without(po, {k \in DOMAIN po : k[1] = key[1] /\ k[2] = key[2]})
    ELSE Without(po, {key})
RemoveIfPresent(po, key) ==
    IF key \in DOMAIN po THEN Without(po, {key}) ELSE po

\* a Sent-command line completes only an order scheduled by an earlier line
RECURSIVE CompletionPassLaterOnly(_, _)
CompletionPassLaterOnly(po, ls) ==
    IF ls = <<>> THEN po
    ELSE LET init == SubSeq(ls, 1, Len(ls) - 1)
             l == ls[Len(ls)]
             done == CompletionPassLaterOnly(po, init)
         IN  IF /\ CompMatch(l)
                /\ \E q \in 1..Len(init) :
                     /\ SchedMatch(init[q])
                     /\ \E n \in 1..Len(SchedTickers(init[q])) : SchedKey(init[q], n) = CompKey(l)
             THEN RemoveIfPresent(done, CompKey(l))
             ELSE done

\* second loop `for line in lines` of update_pending_orders
RECURSIVE CompletionPass(_, _)
CompletionPass(po, ls) ==
    IF ls = <<>> THEN po
    ELSE CompletionPass(IF CompMatch(Head(ls)) THEN RemoveIfPresent(po, CompKey(Head(ls))) ELSE po, Tail(ls))

(***************************************************************************)
(* The refresh loop calling update_pending_orders.  The function reads the *)
(* file once; the states after each of its two loops are kept apart.       *)
(***************************************************************************)
\* an absent log empties the map
PO_OpenClearWhenAbsent ==
    /\ pc = "idle"
    /\ before' = pending_orders
    /\ IF log_exists
       THEN /\ lines' = app_log
            /\ pc' = "po_read"
            /\ pending_orders' = pending_orders
       ELSE /\ lines' = <<>>
            /\ pc' = "po_done"
            /\ pending_orders' = EmptyOrders
    /\ UNCHANGED <<trackerVars, table>>
    /\ UNCHANGED <<log_exists, app_log, nasdaq_alerts, i>>
    /\ UNCHANGED <<threadVars, last_logs>>

\* entry: `if not os.path.exists(APP_LOG_FILE): return`, else f.readlines()
PO_Open ==
    /\ pc = "idle"
    /\ before' = pending_orders
    /\ IF log_exists
       THEN /\ lines' = app_log
            /\ pc' = "po_read"
       ELSE /\ lines' = <<>>
            /\ pc' = "po_done"
    /\ UNCHANGED <<trackerVars, table>>
    /\ UNCHANGED <<log_exists, app_log, pending_orders, nasdaq_alerts, i>>
    /\ UNCHANGED <<threadVars, last_logs>>

PO_Scheduled ==
    /\ pc = "po_read"
    /\ pending_orders' = ScheduledPass(pending_orders, lines)
    /\ pc' = "po_sched"
    /\ UNCHANGED <<trackerVars, table>>
    /\ UNCHANGED <<log_exists, app_log, nasdaq_alerts, lines, i, before>>
    /\ UNCHANGED <<threadVars, last_logs>>

PO_Completed ==
    /\ pc = "po_sched"
    /\ pending_orders' = CompletionPass(pending_orders, lines)
    /\ pc' = "po_done"
    /\ UNCHANGED <<trackerVars, table>>
    /\ UNCHANGED <<log_exists, app_log, nasdaq_alerts, lines, i, before>>
    /\ UNCHANGED <<threadVars, last_logs>>

\* the function returns; its locals are gone
PO_Return ==
    /\ pc = "po_done"
    /\ pc' = "idle"
    /\ lines' = <<>>
    /\ before' = EmptyOrders
    /\ UNCHANGED <<trackerVars, table>>
    /\ UNCHANGED <<log_exists, app_log, pending_orders, nasdaq_alerts, i>>
    /\ UNCHANGED <<threadVars, last_logs>>

(***************************************************************************)
(* The process writing the log, between two ticks                          *)
(***************************************************************************)
AppendOrderLine ==
    /\ pc = "idle"
    /\ Len(app_log) < MaxLog
    /\ \E l \in OrderLines : app_log' = Append(app_log, l)
    /\ log_exists' = TRUE
    /\ UNCHANGED <<trackerVars, table>>
    /\ UNCHANGED <<pending_orders, nasdaq_alerts, pc, lines, i, before>>
    /\ UNCHANGED <<threadVars, last_logs>>

\* log rotation: the oldest line is dropped / the file is emptied
DropOldestLine ==
    /\ pc = "idle"
    /\ log_exists
    /\ app_log # <<>>
    /\ app_log' = Tail(app_log)
    /\ UNCHANGED <<trackerVars, table>>
    /\ UNCHANGED <<log_exists, pending_orders, nasdaq_alerts, pc, lines, i, before>>
    /\ UNCHANGED <<threadVars, last_logs>>

TruncateLog ==
    /\ pc = "idle"
    /\ log_exists
    /\ app_log # <<>>
    /\ app_log' = <<>>
    /\ UNCHANGED <<trackerVars, table>>
    /\ UNCHANGED <<log_exists, pending_orders, nasdaq_alerts, pc, lines, i, before>>
    /\ UNCHANGED <<threadVars, last_logs>>

RemoveLog ==
    /\ pc = "idle"
    /\ log_exists
    /\ log_exists' = FALSE
    /\ app_log' = <<>>
    /\ UNCHANGED <<trackerVars, table>>
    /\ UNCHANGED <<pending_orders, nasdaq_alerts, pc, lines, i, before>>
    /\ UNCHANGED <<threadVars, last_logs>>

(***************************************************************************)
(* build_pending_orders_table: the rows of the "Scheduled Orders" table.   *)
(* The table is kept as the bag of its rows.                               *)
(***************************************************************************)
\* str.capitalize()
Capitalize(s) ==
    CASE s = "buy"  -> "Buy"
      [] s = "sell" -> "Sell"
      [] s = "acme" -> "Acme"
      [] s = "zeta" -> "Zeta"
      [] OTHER      -> s

\* str(count)
RECURSIVE Decimal(_)
Decimal(n) == IF n < 10 THEN <<Digit(n)>> ELSE Decimal(n \div 10) \o <<Digit(n % 10)>>

\* the orders are grouped under their whole key
GroupKeyWithBroker(key) == key

\* groups[(action, ticker)]
GroupKey(key) == <<key[1], key[2]>>

Groups(po) == { GroupKey(k) : k \in DOMAIN po }

\* orders_list of a group, by the keys of its orders
OrdersList(po, g) == { k \in DOMAIN po : GroupKey(k) = g }

\* broker_str
BrokerStr(brokers) ==
    IF Cardinality(brokers) > 1
    THEN Decimal(Cardinality(brokers)) \o <<" ", "Brokers">>
    ELSE <<Capitalize(CHOOSE b \in brokers : TRUE)>>

\* times: the o["time"] that datetime.strptime accepts
Times(po, ks) == { po[k].time : k \in { j \in ks : ValidStamp(po[j].time) } }

\* datetime comparison a <= b
StampLE(a, b) ==
    LET x == <<a.year, a.month, a.day, a.hour, a.minute, a.second>>
        y == <<b.year, b.month, b.day, b.hour, b.minute, b.second>>
    IN  \/ x = y
        \/ \E n \in 1..6 : x[n] < y[n] /\ \A m \in 1..(n - 1) : x[m] = y[m]

\* min(times)
MinTime(times) == CHOOSE t \in times : \A u \in times : StampLE(t, u)

\* formatted_time
FormattedTime(times) ==
    IF times # {} THEN LStripZero(Strftime(MinTime(times))) ELSE <<>>

\* table.add_row(ticker, action.capitalize(), str(count), broker_str, formatted_time)
TableRow(po, g) ==
    LET orders_list == OrdersList(po, g)
    IN  [ticker |-> g[2], action |-> Capitalize(g[1]),
         count |-> Decimal(Cardinality(orders_list)),
         brokers |-> BrokerStr({ po[k].broker : k \in orders_list }),
         time |-> FormattedTime(Times(po, orders_list))]

\* table.add_row("No scheduled orders", "", "", "", "")
PlaceholderRow ==
    [ticker |-> "No scheduled orders", action |-> "", count |-> <<>>, brokers |-> <<>>,
     time |-> <<>>]

\* for (action, ticker), orders_list in groups.items(): table.add_row(...)
RECURSIVE AddRows(_, _, _)
AddRows(tbl, po, gs) ==
    IF gs = {} THEN tbl
    ELSE LET g == CHOOSE x \in gs : TRUE
         IN  AddRows(tbl (+) SetToBag({TableRow(po, g)}), po, gs \ {g})

PendingOrdersTable(po) ==
    IF Groups(po) = {}
    THEN SetToBag({PlaceholderRow})
    ELSE AddRows(EmptyBag, po, Groups(po))

\* create_dashboard builds the table from the map as it is
PT_Build ==
    /\ pc = "idle"
    /\ table' = PendingOrdersTable(pending_orders)
    /\ pc' = "pt_done"
    /\ UNCHANGED trackerVars
    /\ UNCHANGED <<log_exists, app_log, pending_orders, nasdaq_alerts, lines, i, before>>
    /\ UNCHANGED <<threadVars, last_logs>>

\* the table is returned and drawn
PT_Return ==
    /\ pc = "pt_done"
    /\ table' = EmptyBag
    /\ pc' = "idle"
    /\ UNCHANGED trackerVars
    /\ UNCHANGED <<log_exists, app_log, pending_orders, nasdaq_alerts, lines, i, before>>
    /\ UNCHANGED <<threadVars, last_logs>>

Init ==
    /\ log_exists = FALSE
    /\ app_log = <<>>
    /\ pending_orders = EmptyOrders
    /\ nasdaq_alerts = <<>>
    /\ pc = "idle"
    /\ lines = <<>>
    /\ i = 0
    /\ before = EmptyOrders
    /\ broker_changes = <<>>
    /\ top_holdings_changes = <<>>
    /\ now = 0
    /\ grouped = <<>>
    /\ rows = <<>>
    /\ table = <<>>
    /\ selected_broker = "None"
    /\ command_history = <<>>
    /\ last_logs = <<>>

NextOrders ==
    \/ PO_Open
    \/ PO_Scheduled
    \/ PO_Completed
    \/ PO_Return
    \/ PT_Build
    \/ PT_Return
    \/ AppendOrderLine
    \/ DropOldestLine
    \/ TruncateLog
    \/ RemoveLog

SpecOrders == Init /\ [][NextOrders]_vars

(***************************************************************************)
(* Alert lines.  A line is kept by what update_nasdaq_alerts tests in it:  *)
(*   recv     "Received message:" in line                                  *)
(*   stamp    the "YYYY-MM-DD HH:MM:SS,fff" the line starts with, NoStamp  *)
(*            when the line does not start with one                        *)
(*   paren    the word of the first "(word)" of the line, "" when none     *)
(*   urlmark  "URL detected in alert message:" in line                     *)
(*   url      the text after that marker, stripped                         *)
(*   conf     "Returning parsed info. Reverse split confirmed:" in line    *)
(*   hasTrue  "True" in line                                               *)
(***************************************************************************)
NoStamp == [year |-> 0, month |-> 0, day |-> 0, hour |-> 0, minute |-> 0, second |-> 0]

RecvLine(st, tk) ==
    [recv |-> TRUE, stamp |-> st, paren |-> tk, urlmark |-> FALSE, url |-> "",
     conf |-> FALSE, hasTrue |-> FALSE]
DetailLine(um, u, c, t) ==
    [recv |-> FALSE, stamp |-> NoStamp, paren |-> "", urlmark |-> um, url |-> u,
     conf |-> c, hasTrue |-> t]

\* a trigger line that itself holds the confirmation marker and "True"
RecvConfLine(st, tk) ==
    [recv |-> TRUE, stamp |-> st, paren |-> tk, urlmark |-> FALSE, url |-> "",
     conf |-> TRUE, hasTrue |-> TRUE]

UrlLine(u) == DetailLine(TRUE, u, FALSE, FALSE)
ConfLine(t) == DetailLine(FALSE, "", TRUE, t)

\* what the writer of the log appends at once: a trigger line and its details
AlertChunks ==
    { <<RecvLine(T1, "ABCD"), ConfLine(TRUE)>>,
      <<RecvLine(T3, ""), UrlLine("u1"), ConfLine(FALSE), UrlLine("u2"),
        DetailLine(TRUE, "u3", TRUE, TRUE)>>,
      <<RecvConfLine(NoStamp, "WXYZ"), UrlLine("u1"), DetailLine(FALSE, "", FALSE, TRUE),
        ConfLine(FALSE)>> }

\* lines written before the first trigger line
Preamble == <<UrlLine("u0"), ConfLine(TRUE)>>

\* formatted_dt of a trigger line
FormattedDt(l) ==
    IF l.stamp = NoStamp THEN <<>>
    ELSE IF ValidStamp(l.stamp) THEN LStripZero(Strftime(l.stamp))
    ELSE TimeStr(l.stamp) \o <<" ">> \o DateStr(l.stamp)

\* ticker of a trigger line
AlertTicker(l) == IF l.paren # "" THEN l.paren ELSE "UNKNOWN"

(***************************************************************************)
(* update_nasdaq_alerts                                                    *)
(***************************************************************************)
\* inner while loop: from line j to the next trigger line or the end of input.
\* url = "" stands for None and for an empty text alike: both fail `if url`.
RECURSIVE ScanBlockAnyConfirmation(_, _, _, _)
ScanBlockAnyConfirmation(ls, j, url, confirmed) ==
    IF j > Len(ls) \/ ls[j].recv
    THEN [j |-> j, url |-> url, confirmed |-> confirmed]
    ELSE ScanBlockAnyConfirmation(ls, j + 1,
                   IF ls[j].urlmark THEN ls[j].url ELSE url,
                   confirmed \/ ls[j].conf)

\* the first URL of the block is kept
RECURSIVE ScanBlockFirstUrl(_, _, _, _)
ScanBlockFirstUrl(ls, j, url, confirmed) ==
    IF j > Len(ls) \/ ls[j].recv
    THEN [j |-> j, url |-> url, confirmed |-> confirmed]
    ELSE ScanBlockFirstUrl(ls, j + 1,
                   IF ls[j].urlmark /\ url = "" THEN ls[j].url ELSE url,
                   confirmed \/ (ls[j].conf /\ ls[j].hasTrue))

RECURSIVE ScanBlock(_, _, _, _)
ScanBlock(ls, j, url, confirmed) ==
    IF j > Len(ls) \/ ls[j].recv
    THEN [j |-> j, url |-> url, confirmed |-> confirmed]
    ELSE ScanBlock(ls, j + 1,
                   IF ls[j].urlmark THEN ls[j].url ELSE url,
                   confirmed \/ (ls[j].conf /\ ls[j].hasTrue))

\* alert_msg: glyph + "Reverse Stock Split Confirmed for {ticker} on
\* {formatted_dt}" + " - {url}" when url is not empty
AlertMsg(ticker, formatted_dt, url) ==
    [glyph |-> TRUE, ticker |-> ticker, on |-> formatted_dt, url |-> url]

\* nasdaq_alerts.append(alert_msg) on a deque(maxlen=5)
DequeAppendUnbounded(dq, x) == Append(dq, x)
DequeAppendKeepOldest(dq, x) == IF Len(dq) >= ALERTS_MAXLEN THEN dq ELSE Append(dq, x)
DequeAppend(dq, x) ==
    IF Len(dq) >= ALERTS_MAXLEN THEN Append(Tail(dq), x) ELSE Append(dq, x)

\* entry: nasdaq_alerts.clear(); return when the file is absent, else readlines
NA_OpenNoClear ==
    /\ pc = "idle"
    /\ before' = nasdaq_alerts
    /\ nasdaq_alerts' = nasdaq_alerts
    /\ IF log_exists
       THEN /\ lines' = app_log
            /\ i' = 1
            /\ pc' = "na_scan"
       ELSE /\ lines' = <<>>
            /\ i' = 0
            /\ pc' = "na_done"
    /\ UNCHANGED <<trackerVars, table>>
    /\ UNCHANGED <<log_exists, app_log, pending_orders>>
    /\ UNCHANGED <<threadVars, last_logs>>

NA_Open ==
    /\ pc = "idle"
    /\ before' = nasdaq_alerts
    /\ nasdaq_alerts' = <<>>
    /\ IF log_exists
       THEN /\ lines' = app_log
            /\ i' = 1
            /\ pc' = "na_scan"
       ELSE /\ lines' = <<>>
            /\ i' = 0
            /\ pc' = "na_done"
    /\ UNCHANGED <<trackerVars, table>>
    /\ UNCHANGED <<log_exists, app_log, pending_orders>>
    /\ UNCHANGED <<threadVars, last_logs>>

\* one iteration of `while i < len(lines)`
NA_Iterate ==
    /\ pc = "na_scan"
    /\ i <= Len(lines)
    /\ IF lines[i].recv
       THEN LET b == ScanBlock(lines, i + 1, "", FALSE)
            IN /\ nasdaq_alerts' =
                     IF b.confirmed
                     THEN DequeAppend(nasdaq_alerts,
                                      AlertMsg(AlertTicker(lines[i]), FormattedDt(lines[i]), b.url))
                     ELSE nasdaq_alerts
               /\ i' = b.j
       ELSE /\ nasdaq_alerts' = nasdaq_alerts
            /\ i' = i + 1
    /\ UNCHANGED <<trackerVars, table>>
    /\ UNCHANGED <<log_exists, app_log, pending_orders, pc, lines, before>>
    /\ UNCHANGED <<threadVars, last_logs>>

\* the loop ends: return list(nasdaq_alerts)
NA_Exit ==
    /\ pc = "na_scan"
    /\ i > Len(lines)
    /\ pc' = "na_done"
    /\ UNCHANGED <<trackerVars, table>>
    /\ UNCHANGED <<log_exists, app_log, pending_orders, nasdaq_alerts, lines, i, before>>
    /\ UNCHANGED <<threadVars, last_logs>>

\* the caller has the list; the locals are gone
NA_Return ==
    /\ pc = "na_done"
    /\ pc' = "idle"
    /\ lines' = <<>>
    /\ i' = 0
    /\ before' = EmptyOrders
    /\ UNCHANGED <<trackerVars, table>>
    /\ UNCHANGED <<log_exists, app_log, pending_orders, nasdaq_alerts>>
    /\ UNCHANGED <<threadVars, last_logs>>

\* number of trigger lines of a log
RECURSIVE Triggers(_)
Triggers(ls) ==
    IF ls = <<>> THEN 0 ELSE (IF Head(ls).recv THEN 1 ELSE 0) + Triggers(Tail(ls))

AppendAlertChunk ==
    /\ pc = "idle"
    /\ log_exists
    /\ Triggers(app_log) < MaxChunks
    /\ \E c \in AlertChunks : app_log' = app_log \o c
    /\ UNCHANGED <<trackerVars, table>>
    /\ UNCHANGED <<log_exists, pending_orders, nasdaq_alerts, pc, lines, i, before>>
    /\ UNCHANGED <<threadVars, last_logs>>

InitAlerts ==
    /\ log_exists = TRUE
    /\ app_log \in {<<>>, Preamble}
    /\ pending_orders = EmptyOrders
    /\ nasdaq_alerts = <<>>
    /\ pc = "idle"
    /\ lines = <<>>
    /\ i = 0
    /\ before = EmptyOrders
    /\ broker_changes = <<>>
    /\ top_holdings_changes = <<>>
    /\ now = 0
    /\ grouped = <<>>
    /\ rows = <<>>
    /\ table = <<>>
    /\ selected_broker = "None"
    /\ command_history = <<>>
    /\ last_logs = <<>>

NextAlerts ==
    \/ NA_Open
    \/ NA_Iterate
    \/ NA_Exit
    \/ NA_Return
    \/ AppendAlertChunk
    \/ RemoveLog

SpecAlerts == InitAlerts /\ [][NextAlerts]_vars

(***************************************************************************)
(* Change tracking: create_dashboard (broker_changes) and                  *)
(* build_top_holdings_by_broker_table (top_holdings_changes)               *)
(***************************************************************************)
\* bound: the clock stops advancing here
MaxNow == 150

\* seconds between two readings of time.time()
TickGaps == {30}

\* "last_change_time": None
None == -1

\* entry["last_change_time"] is not None and (now - entry["last_change_time"] >= 60)
DECAY_SECONDS == 60

\* the keys of the rows group_holdings_by_broker yields, in groupby order
BrokerKeys == << <<"Acme", 1>>, <<"Zeta", 2>> >>

\* the keys of the rows of build_top_holdings_by_broker_table: (broker, row["Stock"])
TopKeys == << <<"Acme", "AAPL">> >>

\* (quantity, value) totals a row can carry
Totals == { <<100, 1000>>, <<110, 1000>>, <<100, 1050>> }

\* the data frames over the keys ks: each key at most once, in the order of ks
RECURSIVE Frames(_)
Frames(ks) ==
    IF ks = <<>> THEN { <<>> }
    ELSE LET rest == Frames(Tail(ks))
         IN  rest \cup { <<[key |-> Head(ks), qty |-> t[1], val |-> t[2]]>> \o f :
                         t \in Totals, f \in rest }

\* if key not in broker_changes: broker_changes[key] = {...}
NewEntry(q, v) ==
    [baseline_quantity |-> q, baseline_value |-> v, last_change_time |-> None,
     delta_quantity |-> 0, delta_value |-> 0]

\* the decay test compares with > instead of >=
DecayedStrictly(entry, t) ==
    entry.last_change_time # None /\ t - entry.last_change_time > DECAY_SECONDS

\* entry["last_change_time"] is not None and (now - entry["last_change_time"] >= 60)
Decayed(entry, t) ==
    entry.last_change_time # None /\ t - entry.last_change_time >= DECAY_SECONDS

\* the reset moves the baseline and clears the stamp, the deltas stay
DecayResetKeepDeltas(entry, q, v, t) ==
    IF Decayed(entry, t)
    THEN [entry EXCEPT !.baseline_quantity = q, !.baseline_value = v,
                       !.last_change_time = None]
    ELSE entry

\* the reset waits for an observation that repeats the values seen last
DecayResetWhenQuiet(entry, q, v, t) ==
    IF /\ Decayed(entry, t)
       /\ q - entry.baseline_quantity = entry.delta_quantity
       /\ v - entry.baseline_value = entry.delta_value
    THEN NewEntry(q, v)
    ELSE entry

\* the first `if` of the else branch: baseline := current, nothing active
DecayReset(entry, q, v, t) ==
    IF Decayed(entry, t) THEN NewEntry(q, v) ELSE entry

\* every observation of a changed entry stamps last_change_time again
StoreDeltaRestamp(entry, q, v, t) ==
    LET delta_q == q - entry.baseline_quantity
        delta_v == v - entry.baseline_value
    IN  IF delta_q # 0 \/ delta_v # 0
        THEN [entry EXCEPT !.last_change_time = t,
                           !.delta_quantity = delta_q, !.delta_value = delta_v]
        ELSE IF entry.last_change_time # None
        THEN [entry EXCEPT !.delta_quantity = delta_q, !.delta_value = delta_v]
        ELSE entry

\* the deltas are stored at activation only
StoreDeltaOnce(entry, q, v, t) ==
    LET delta_q == q - entry.baseline_quantity
        delta_v == v - entry.baseline_value
    IN  IF (delta_q # 0 \/ delta_v # 0) /\ entry.last_change_time = None
        THEN [entry EXCEPT !.last_change_time = t,
                           !.delta_quantity = delta_q, !.delta_value = delta_v]
        ELSE entry

\* delta_q, delta_v and the if / elif that store them
StoreDelta(entry, q, v, t) ==
    LET delta_q == q - entry.baseline_quantity
        delta_v == v - entry.baseline_value
    IN  IF (delta_q # 0 \/ delta_v # 0) /\ entry.last_change_time = None
        THEN [entry EXCEPT !.last_change_time = t,
                           !.delta_quantity = delta_q, !.delta_value = delta_v]
        ELSE IF entry.last_change_time # None
        THEN [entry EXCEPT !.delta_quantity = q - entry.baseline_quantity,
                           !.delta_value = v - entry.baseline_value]
        ELSE entry

\* observing a key rebuilds the dict with that key alone
ObserveForgetOthers(changes, key, q, v, t) ==
    IF key \notin DOMAIN changes
    THEN (key :> NewEntry(q, v))
    ELSE (key :> StoreDelta(DecayReset(changes[key], q, v, t), q, v, t))

\* one pass of the loop body over the dict: the observation of (key, q, v) at time t
Observe(changes, key, q, v, t) ==
    IF key \notin DOMAIN changes
    THEN (key :> NewEntry(q, v)) @@ changes
    ELSE (key :> StoreDelta(DecayReset(changes[key], q, v, t), q, v, t)) @@ changes

\* the text appended to qty_text / val_text: nothing, or the coloured delta
DeltaText(active, d) ==
    IF active /\ d > 0 THEN <<"green", d>>
    ELSE IF active /\ d < 0 THEN <<"red", -d>>
    ELSE <<>>

\* broker_rows.append({...}) / rows.append({...})
RowOf(changes, r) ==
    LET entry == changes[r.key]
        active == entry.last_change_time # None
    IN  [key |-> r.key, qty |-> r.qty, val |-> r.val,
         qty_delta |-> DeltaText(active, entry.delta_quantity),
         val_delta |-> DeltaText(active, entry.delta_value),
         active |-> active,
         change_time |-> IF active THEN entry.last_change_time ELSE 0]

\* the sort key without the minus sign: oldest activation first
SortKeyAscending(x) == << IF x.active THEN 0 ELSE 1, IF x.active THEN x.change_time ELSE 0 >>

\* key=lambda x: (not x["active"], -x["change_time"] if x["active"] else 0)
SortKey(x) == << IF x.active THEN 0 ELSE 1, IF x.active THEN 0 - x.change_time ELSE 0 >>

\* tuple comparison a <= b
KeyLE(a, b) == a[1] < b[1] \/ (a[1] = b[1] /\ a[2] <= b[2])

\* list.sort: stable, ascending by SortKey
RECURSIVE SortRows(_)
SortRows(rs) ==
    IF rs = <<>> THEN <<>>
    ELSE LET init == SortRows(SubSeq(rs, 1, Len(rs) - 1))
             x == rs[Len(rs)]
             n == Cardinality({ j \in 1..Len(init) : KeyLE(SortKey(init[j]), SortKey(x)) })
         IN  SubSeq(init, 1, n) \o <<x>> \o SubSeq(init, n + 1, Len(init))

\* for _, row in grouped.iterrows(): from row k on, with the dict and the rows so far
RECURSIVE TrackLoop(_, _, _, _, _)
TrackLoop(changes, rs, g, k, t) ==
    IF k > Len(g) THEN [changes |-> changes, rows |-> rs]
    ELSE LET c == Observe(changes, g[k].key, g[k].qty, g[k].val, t)
         IN  TrackLoop(c, Append(rs, RowOf(c, g[k])), g, k + 1, t)

\* create_dashboard, lines 530-603: the broker overview of one tick
CD_Tick ==
    /\ pc = "idle"
    /\ \E g \in Frames(BrokerKeys), d \in TickGaps :
         /\ now + d <= MaxNow
         /\ now' = now + d
         /\ grouped' = g
         /\ IF g # <<>>
            THEN LET r == TrackLoop(broker_changes, <<>>, g, 1, now + d)
                 IN  /\ broker_changes' = r.changes
                     /\ rows' = SortRows(r.rows)
            ELSE /\ broker_changes' = broker_changes
                 /\ rows' = <<>>
    /\ before' = broker_changes
    /\ pc' = "cd_done"
    /\ UNCHANGED <<logVars, top_holdings_changes, table>>
    /\ UNCHANGED <<threadVars, last_logs>>

\* the tables are returned; the locals are gone
CD_Return ==
    /\ pc = "cd_done"
    /\ pc' = "idle"
    /\ before' = EmptyOrders
    /\ grouped' = <<>>
    /\ rows' = <<>>
    /\ UNCHANGED <<logVars, broker_changes, top_holdings_changes, now, table>>
    /\ UNCHANGED <<threadVars, last_logs>>

\* build_top_holdings_by_broker_table: the top holdings of the selected broker
TH_Tick ==
    /\ pc = "idle"
    /\ \E g \in Frames(TopKeys), d \in TickGaps :
         /\ now + d <= MaxNow
         /\ now' = now + d
         /\ grouped' = g
         /\ IF g # <<>>
            THEN LET r == TrackLoop(top_holdings_changes, <<>>, g, 1, now + d)
                 IN  /\ top_holdings_changes' = r.changes
                     /\ rows' = SortRows(r.rows)
            ELSE /\ top_holdings_changes' = top_holdings_changes
                 /\ rows' = <<>>
    /\ before' = top_holdings_changes
    /\ pc' = "th_done"
    /\ UNCHANGED <<logVars, broker_changes, table>>
    /\ UNCHANGED <<threadVars, last_logs>>

\* the table is returned; the locals are gone
TH_Return ==
    /\ pc = "th_done"
    /\ pc' = "idle"
    /\ before' = EmptyOrders
    /\ grouped' = <<>>
    /\ rows' = <<>>
    /\ UNCHANGED <<logVars, broker_changes, top_holdings_changes, now, table>>
    /\ UNCHANGED <<threadVars, last_logs>>

InitChanges ==
    /\ log_exists = TRUE
    /\ app_log = <<>>
    /\ pending_orders = EmptyOrders
    /\ nasdaq_alerts = <<>>
    /\ pc = "idle"
    /\ lines = <<>>
    /\ i = 0
    /\ before = EmptyOrders
    /\ broker_changes = <<>>
    /\ top_holdings_changes = <<>>
    /\ now = 0
    /\ grouped = <<>>
    /\ rows = <<>>
    /\ table = <<>>
    /\ selected_broker = "None"
    /\ command_history = <<>>
    /\ last_logs = <<>>

NextChanges ==
    \/ CD_Tick
    \/ CD_Return
    \/ TH_Tick
    \/ TH_Return

SpecChanges == InitChanges /\ [][NextChanges]_vars

(***************************************************************************)
(* One log for both readers: create_dashboard calls update_pending_orders  *)
(* and update_nasdaq_alerts on the same file                               *)
(***************************************************************************)
\* bound: lines of the log
MaxDashLog == 4

\* an order line holds none of the markers update_nasdaq_alerts looks for
OrderLineInLog(l) == l @@ DetailLine(FALSE, "", FALSE, FALSE)

\* an alert line matches neither pattern of update_pending_orders
AlertLineInLog(l) == l @@ OtherLine

\* what the writer of the log appends at once
DashChunks ==
    { << OrderLineInLog(SchedLine("buy", <<"AAPL", "MSFT">>, "10", "acme", T1)) >>,
      << OrderLineInLog(SentLine("buy", "10", "AAPL", "acme")) >>,
      << AlertLineInLog(RecvLine(T1, "ABCD")), AlertLineInLog(ConfLine(TRUE)) >> }

AppendDashChunk ==
    /\ pc = "idle"
    /\ log_exists
    /\ \E c \in DashChunks :
         /\ Len(app_log) + Len(c) <= MaxDashLog
         /\ app_log' = app_log \o c
    /\ UNCHANGED <<trackerVars, table>>
    /\ UNCHANGED <<log_exists, pending_orders, nasdaq_alerts, pc, lines, i, before>>
    /\ UNCHANGED <<threadVars, last_logs>>

\* the writer of the log starts a new file
CreateLog ==
    /\ pc = "idle"
    /\ ~log_exists
    /\ log_exists' = TRUE
    /\ app_log' = <<>>
    /\ UNCHANGED <<trackerVars, table>>
    /\ UNCHANGED <<pending_orders, nasdaq_alerts, pc, lines, i, before>>
    /\ UNCHANGED <<threadVars, last_logs>>

NextDashboard ==
    \/ PO_Open
    \/ PO_Scheduled
    \/ PO_Completed
    \/ PO_Return
    \/ NA_Open
    \/ NA_Iterate
    \/ NA_Exit
    \/ NA_Return
    \/ AppendDashChunk
    \/ RemoveLog
    \/ CreateLog

SpecDashboard == InitChanges /\ [][NextDashboard]_vars

(***************************************************************************)
(* update_nasdaq_alerts on a log that grows line by line                   *)
(***************************************************************************)
\* bound: lines of the log
MaxBlockLog == 4

\* a trigger line that itself holds a URL marker, the confirmation marker and "True"
RecvUrlConfLine(st, tk, u) == [RecvConfLine(st, tk) EXCEPT !.urlmark = TRUE, !.url = u]

\* the lines the writer of the log appends
BlockLineTypes ==
    { RecvLine(T1, "ABCD"), RecvUrlConfLine(T2, "WXYZ", "u0"),
      UrlLine("u1"), UrlLine("u2"), UrlLine(""), ConfLine(TRUE), ConfLine(FALSE) }

AppendBlockLine ==
    /\ pc = "idle"
    /\ log_exists
    /\ Len(app_log) < MaxBlockLog
    /\ \E l \in BlockLineTypes : app_log' = Append(app_log, l)
    /\ UNCHANGED <<trackerVars, table>>
    /\ UNCHANGED <<log_exists, pending_orders, nasdaq_alerts, pc, lines, i, before>>
    /\ UNCHANGED <<threadVars, last_logs>>

NextBlocks ==
    \/ NA_Open
    \/ NA_Iterate
    \/ NA_Exit
    \/ NA_Return
    \/ AppendBlockLine

SpecBlocks == InitChanges /\ [][NextBlocks]_vars

(***************************************************************************)
(* The background threads of main: listen_for_broker_change and            *)
(* command_input_loop run beside the refresh loop                          *)
(***************************************************************************)
\* bound: commands entered
MaxCommands == 1

\* brokers = sorted(account_mappings.keys())
Brokers == <<"Acme", "Zeta">>

\* what the operator types in the command window
Commands == { "!rsa buy 10 AAPL acme" }

\* the choice also resets the change entries of the broker overview
LB_SelectResetsChanges ==
    /\ \E choice_int \in 0..(Len(Brokers) + 1) :
         IF choice_int = 0
         THEN selected_broker' = "None" /\ broker_changes' = <<>>
         ELSE IF 1 <= choice_int /\ choice_int <= Len(Brokers)
         THEN selected_broker' = Brokers[choice_int] /\ broker_changes' = <<>>
         ELSE selected_broker' = selected_broker /\ broker_changes' = broker_changes
    /\ UNCHANGED <<logVars, top_holdings_changes, now, grouped, rows, pc, before, table,
                   command_history, last_logs>>

\* listen_for_broker_change: one pass of its loop with a number typed in;
\* 0 selects all brokers, 1..len(brokers) one broker, anything else nothing
LB_Select ==
    /\ \E choice_int \in 0..(Len(Brokers) + 1) :
         IF choice_int = 0
         THEN selected_broker' = "None"
         ELSE IF 1 <= choice_int /\ choice_int <= Len(Brokers)
         THEN selected_broker' = Brokers[choice_int]
         ELSE selected_broker' = selected_broker
    /\ UNCHANGED <<logVars, trackerVars, pc, before, table, command_history, last_logs>>

\* command_input_loop: command_history.append(cmd); the rest posts to the webhook
CI_Command ==
    /\ Len(command_history) < MaxCommands
    /\ \E cmd \in Commands : command_history' = Append(command_history, cmd)
    /\ UNCHANGED <<logVars, trackerVars, pc, before, table, selected_broker, last_logs>>

\* the log the program finds when it starts
ThreadsLog ==
    << OrderLineInLog(SchedLine("buy", <<"AAPL", "MSFT">>, "10", "acme", T1)),
       AlertLineInLog(RecvLine(T1, "ABCD")), AlertLineInLog(ConfLine(TRUE)),
       OrderLineInLog(SentLine("buy", "10", "AAPL", "acme")) >>

\* the program starts on a log that is there; the clock shows any time, here
\* one tick before MaxNow
InitThreads ==
    /\ log_exists = TRUE
    /\ app_log = ThreadsLog
    /\ pending_orders = EmptyOrders
    /\ nasdaq_alerts = <<>>
    /\ pc = "idle"
    /\ lines = <<>>
    /\ i = 0
    /\ before = EmptyOrders
    /\ broker_changes = <<>>
    /\ top_holdings_changes = <<>>
    /\ now = MaxNow - 30
    /\ grouped = <<>>
    /\ rows = <<>>
    /\ table = <<>>
    /\ selected_broker = "None"
    /\ command_history = <<>>
    /\ last_logs = <<>>

NextThreads ==
    \/ LB_Select
    \/ CI_Command
    \/ PO_Open
    \/ PO_Scheduled
    \/ PO_Completed
    \/ PO_Return
    \/ NA_Open
    \/ NA_Iterate
    \/ NA_Exit
    \/ NA_Return
    \/ CD_Tick
    \/ CD_Return
    \/ TH_Tick
    \/ TH_Return
    \/ RemoveLog

SpecThreads == InitThreads /\ [][NextThreads]_vars

(***************************************************************************)
(* RSViewer / RSWatch: load_app_logs                                       *)
(***************************************************************************)
\* bound: lines of the log
MaxViewerLog == 7

\* last_logs = deque(maxlen=5)
LAST_LOGS_MAXLEN == 5

\* logs[-5:]
TAIL_COUNT == 5

\* logs[-n:]
LastLines(logs, n) ==
    IF Len(logs) <= n THEN logs ELSE SubSeq(logs, Len(logs) - n + 1, Len(logs))

\* deque.extend(xs): append one by one, dropping from the left when full
RECURSIVE DequeExtend(_, _)
DequeExtend(dq, xs) ==
    IF xs = <<>> THEN dq
    ELSE DequeExtend(IF Len(dq) >= LAST_LOGS_MAXLEN THEN Append(Tail(dq), Head(xs))
                     ELSE Append(dq, Head(xs)),
                     Tail(xs))

\* load_app_logs: the lines of the file, when there is one, extend last_logs
LL_Load ==
    /\ pc = "idle"
    /\ last_logs' = IF log_exists
                    THEN DequeExtend(last_logs, LastLines(app_log, TAIL_COUNT))
                    ELSE last_logs
    /\ pc' = "ll_done"
    /\ UNCHANGED <<logVars, trackerVars, before, table, threadVars>>

\* return list(last_logs)
LL_Return ==
    /\ pc = "ll_done"
    /\ pc' = "idle"
    /\ UNCHANGED <<logVars, trackerVars, before, table, threadVars, last_logs>>

\* the writer of the log appends a line; a line is kept by its number
AppendViewerLine ==
    /\ pc = "idle"
    /\ log_exists
    /\ Len(app_log) < MaxViewerLog
    /\ app_log' = Append(app_log, Len(app_log) + 1)
    /\ UNCHANGED <<log_exists, pending_orders, nasdaq_alerts, pc, lines, i, before>>
    /\ UNCHANGED <<trackerVars, table, threadVars, last_logs>>

NextViewer ==
    \/ LL_Load
    \/ LL_Return
    \/ AppendViewerLine
    \/ TruncateLog
    \/ RemoveLog
    \/ CreateLog

SpecViewer == InitChanges /\ [][NextViewer]_vars

(***************************************************************************)
(* update_pending_orders on a log that is only appended to                 *)
(***************************************************************************)
NextAppendOnly ==
    \/ PO_Open
    \/ PO_Scheduled
    \/ PO_Completed
    \/ PO_Return
    \/ AppendOrderLine

SpecAppendOnly == Init /\ [][NextAppendOnly]_vars

(***************************************************************************)
(* update_pending_orders on a log with lines that lack the broker          *)
(***************************************************************************)
MaxBrokerLog == 3

\* a Scheduled line whose broker field is blank, Scheduled lines with a broker,
\* Sent-command lines with and without the optional broker token
BrokerLines ==
    { SchedLine("buy", <<"AAPL">>, "10", "", T1),
      SchedLine("buy", <<"AAPL", "MSFT">>, "10", "acme", T1),
      SchedLine("sell", <<"AAPL">>, "5", "zeta", T2),
      SentLine("buy", "10", "AAPL", ""),
      SentLine("sell", "5", "AAPL", ""),
      SentLine("buy", "10", "AAPL", "acme") }

AppendBrokerLine ==
    /\ pc = "idle"
    /\ Len(app_log) < MaxBrokerLog
    /\ \E l \in BrokerLines : app_log' = Append(app_log, l)
    /\ log_exists' = TRUE
    /\ UNCHANGED <<trackerVars, table>>
    /\ UNCHANGED <<pending_orders, nasdaq_alerts, pc, lines, i, before>>
    /\ UNCHANGED <<threadVars, last_logs>>

NextBrokers ==
    \/ PO_Open
    \/ PO_Scheduled
    \/ PO_Completed
    \/ PO_Return
    \/ AppendBrokerLine
    \/ DropOldestLine
    \/ TruncateLog
    \/ RemoveLog

SpecBrokers == Init /\ [][NextBrokers]_vars

(***************************************************************************)
(* Vocabulary of the properties of update_pending_orders                   *)
(***************************************************************************)
Keys == {"buy", "sell"} \X {"AAPL", "MSFT"} \X {"acme", "zeta", ""}

\* <<p, n>>: the n-th ticker of line p of ls is a Scheduled event with key K
SchedAt(K, ls) ==
    UNION { { <<p, n>> : n \in { m \in 1..Len(SchedTickers(ls[p])) : SchedKey(ls[p], m) = K } } :
            p \in { q \in 1..Len(ls) : SchedMatch(ls[q]) } }
\* p: line p of ls is a Sent-command event with key K
SentAt(K, ls) == { p \in 1..Len(ls) : CompMatch(ls[p]) /\ CompKey(ls[p]) = K }

HasSched(K, ls) == SchedAt(K, ls) # {}
HasSent(K, ls) == SentAt(K, ls) # {}

\* the first Scheduled event with key K in ls
FirstSched(K, ls) ==
    CHOOSE pn \in SchedAt(K, ls) :
        \A qm \in SchedAt(K, ls) : pn[1] < qm[1] \/ (pn[1] = qm[1] /\ pn[2] <= qm[2])

\* ls without its Sent-command lines of key K
RECURSIVE NoSent(_, _)
NoSent(K, ls) ==
    IF ls = <<>> THEN <<>>
    ELSE IF CompMatch(Head(ls)) /\ CompKey(Head(ls)) = K
         THEN NoSent(K, Tail(ls))
         ELSE <<Head(ls)>> \o NoSent(K, Tail(ls))

C2_OnlyLaterSentCompletes ==
    pc = "po_done" =>
        \A K \in Keys :
            (\E p \in SentAt(K, lines) : \E qn \in SchedAt(K, lines) :
                /\ p < qn[1]
                /\ \A r \in SentAt(K, lines) : r < qn[1])
            => K \in DOMAIN pending_orders

\* C3: first-seen wins.  After the Scheduled loop (and after the tick, when the
\* log has no Sent-command line of K) an entry that was pending before the tick
\* is untouched, and an entry created by the tick carries the quantity and time
\* of the first Scheduled event of its key in the log.
C3_FirstSeenWins ==
    \A K \in Keys :
        (pc = "po_sched" \/ (pc = "po_done" /\ ~HasSent(K, lines))) =>
            /\ K \in DOMAIN before =>
                  (K \in DOMAIN pending_orders /\ pending_orders[K] = before[K])
            /\ (K \notin DOMAIN before /\ HasSched(K, lines)) =>
                  /\ K \in DOMAIN pending_orders
                  /\ pending_orders[K].quantity = lines[FirstSched(K, lines)[1]].quantity
                  /\ pending_orders[K].time = lines[FirstSched(K, lines)[1]].time

C3_Witness ==
    /\ pc = "po_done"
    /\ \E K \in DOMAIN before :
        /\ \E pn \in SchedAt(K, lines) : lines[pn[1]].quantity # before[K].quantity
        /\ ~HasSent(K, lines)
        /\ pending_orders[K] = before[K]

\* C4: every entry of the pending-order map is stored under the key made of
\* its own action, ticker and broker.
C4_OneOrderPerKey ==
    \A k \in DOMAIN pending_orders :
        /\ pending_orders[k].action = k[1]
        /\ pending_orders[k].ticker = k[2]
        /\ pending_orders[k].broker = k[3]

C4_Witness ==
    /\ Cardinality(DOMAIN pending_orders) >= 2
    /\ \E k \in DOMAIN pending_orders : pending_orders[k].quantity = "20"

\* C5: a pending order stays pending, with the same details, over every step
\* other than the Sent-command loop of a tick whose log has a Sent-command
\* line of its key.
C5_PendingUntilSent ==
    [][ \A K \in DOMAIN pending_orders :
            ~(pc = "po_sched" /\ HasSent(K, lines)) =>
                (K \in DOMAIN pending_orders' /\ pending_orders'[K] = pending_orders[K]) ]_vars

C5_Witness ==
    /\ pc = "po_done"
    /\ \E K \in DOMAIN before :
        /\ ~HasSched(K, lines)
        /\ ~HasSent(K, lines)
        /\ K \in DOMAIN pending_orders
        /\ pending_orders[K] = before[K]

\* C6: a Scheduled line and a Sent-command line whose action, ticker and
\* broker are equal up to letter case have the same key, so after a tick over
\* a log with both the order is not pending.
C6_KeysCaseNormalized ==
    pc = "po_done" =>
        \A p, q \in 1..Len(lines) :
            (/\ lines[p].kind = "sched"
             /\ lines[q].kind = "sent"
             /\ Lower(lines[p].action) = Lower(lines[q].action)
             /\ Lower(lines[p].broker) = Lower(lines[q].broker))
            => \A n \in 1..Len(lines[p].tickers) :
                  Lower(lines[p].tickers[n]) = Lower(lines[q].ticker) =>
                      <<Lower(lines[p].action), Upper(lines[p].tickers[n]), Lower(lines[p].broker)>>
                          \notin DOMAIN pending_orders

\* C7: a Sent-command line without a broker token has the empty broker in its
\* key, and the Sent-command loop removes a key only if a Sent-command line of
\* exactly that key is in the log: a line without broker never removes an order
\* with a broker.
C7_NoBrokerMatchesOnlyEmpty ==
    [][ pc = "po_sched" =>
          /\ \A p \in 1..Len(lines) :
                (CompMatch(lines[p]) /\ lines[p].broker = "") => CompKey(lines[p])[3] = ""
          /\ \A K \in DOMAIN pending_orders :
                K \notin DOMAIN pending_orders' =>
                    \E p \in 1..Len(lines) :
                        /\ CompMatch(lines[p])
                        /\ <<lines[p].action, Upper(lines[p].ticker), Lower(lines[p].broker)>> = K ]_vars

C7_Witness ==
    /\ pc = "po_done"
    /\ \E p \in 1..Len(lines) : \E K \in DOMAIN pending_orders :
        /\ CompMatch(lines[p])
        /\ lines[p].broker = ""
        /\ K[1] = lines[p].action
        /\ K[2] = Upper(lines[p].ticker)
        /\ K[3] # ""
        /\ K \in DOMAIN before

\* C8: after the Scheduled loop every ticker listed in a Scheduled line of the
\* log is pending under the line's action and broker, and an order the tick
\* created from the first Scheduled event of its key has that line's quantity,
\* broker and time.
C8_OneOrderPerListedTicker ==
    pc = "po_sched" =>
        \A p \in 1..Len(lines) :
            SchedMatch(lines[p]) =>
                \A n \in 1..Len(lines[p].tickers) :
                    LET K == <<lines[p].action, Upper(lines[p].tickers[n]), Lower(lines[p].broker)>>
                    IN /\ K \in DOMAIN pending_orders
                       /\ (K \notin DOMAIN before /\ FirstSched(K, lines) = <<p, n>>) =>
                             /\ pending_orders[K].quantity = lines[p].quantity
                             /\ pending_orders[K].broker = Lower(lines[p].broker)
                             /\ pending_orders[K].time = lines[p].time

C8_Witness ==
    /\ pc = "po_sched"
    /\ \E p \in 1..Len(lines) :
        /\ SchedMatch(lines[p])
        /\ Len(lines[p].tickers) = 2
        /\ \A n \in 1..2 :
            LET K == <<lines[p].action, Upper(lines[p].tickers[n]), Lower(lines[p].broker)>>
            IN K \notin DOMAIN before /\ K \in DOMAIN pending_orders

(***************************************************************************)
(* Vocabulary of the properties of update_nasdaq_alerts                    *)
(***************************************************************************)
TriggerPos(ls) == { p \in 1..Len(ls) : ls[p].recv }

\* the lines after trigger line p, up to the next trigger line or the end
BlockLines(ls, p) == { q \in (p + 1)..Len(ls) : \A r \in (p + 1)..q : ~ls[r].recv }

BlockConfirmed(ls, p) == \E q \in BlockLines(ls, p) : ls[q].conf /\ ls[q].hasTrue

BlockUrl(ls, p) ==
    LET U == { q \in BlockLines(ls, p) : ls[q].urlmark }
    IN IF U = {} THEN "" ELSE ls[CHOOSE q \in U : \A r \in U : r <= q].url

BlockAlert(ls, p) == AlertMsg(AlertTicker(ls[p]), FormattedDt(ls[p]), BlockUrl(ls, p))

ConfirmedPos(ls) == { p \in TriggerPos(ls) : BlockConfirmed(ls, p) }

\* the k-th confirmed trigger line of ls, in document order
NthConfirmed(ls, k) ==
    CHOOSE p \in ConfirmedPos(ls) : Cardinality({ q \in ConfirmedPos(ls) : q < p }) = k - 1

Min2(a, b) == IF a <= b THEN a ELSE b

\* C9: the alert buffer never holds more than 5 alerts, in the middle of
\* update_nasdaq_alerts included.
C9_AtMostFiveAlerts == Len(nasdaq_alerts) <= 5

C9_Witness ==
    /\ pc = "na_scan"
    /\ Len(nasdaq_alerts) = 5
    /\ Cardinality({ p \in ConfirmedPos(lines) : p < i }) > 5

\* C10: when update_nasdaq_alerts returns after scanning a log with n
\* confirmed trigger blocks, the buffer holds the alerts of the last min(n,5)
\* of them, in document order, the last block last.
C10_LastFiveInDocumentOrder ==
    pc = "na_done" =>
        LET n == Cardinality(ConfirmedPos(lines))
            m == Len(nasdaq_alerts)
        IN /\ m = Min2(n, 5)
           /\ \A k \in 1..m : nasdaq_alerts[k] = BlockAlert(lines, NthConfirmed(lines, n - m + k))

C10_Witness ==
    /\ pc = "na_done"
    /\ Cardinality(ConfirmedPos(lines)) > 5
    /\ nasdaq_alerts[1] # BlockAlert(lines, NthConfirmed(lines, 1))
    /\ nasdaq_alerts[5] # nasdaq_alerts[4]

\* b is a after one append to the deque: one longer up to 5, the oldest gone
\* when a was full
Appended(a, b) ==
    /\ Len(b) = Min2(Len(a) + 1, 5)
    /\ IF Len(a) < 5
       THEN SubSeq(b, 1, Len(a)) = a
       ELSE SubSeq(b, 1, 4) = SubSeq(a, 2, 5)

\* the trigger line p itself or a line after it in its block confirms
BlockConfirmedWithTrigger(ls, p) ==
    \E q \in {p} \cup BlockLines(ls, p) : ls[q].conf /\ ls[q].hasTrue

\* C11 as stated: the block is the trigger line and the lines after it up to
\* the next trigger line; the iteration over a trigger line appends an alert if
\* and only if some line of that block holds the confirmation marker and "True".
C11_AlertIffConfirmedInBlock ==
    [][ (pc = "na_scan" /\ i <= Len(lines) /\ lines[i].recv) =>
          IF BlockConfirmedWithTrigger(lines, i)
          THEN Appended(nasdaq_alerts, nasdaq_alerts')
          ELSE nasdaq_alerts' = nasdaq_alerts ]_vars

\* C11 amended: the iteration over a trigger line appends an alert if and only
\* if some line after the trigger line and before the next trigger line (or the
\* end of input) holds the confirmation marker and "True"; the trigger line
\* itself and the lines from the next trigger line on never confirm the block.
C11_AlertIffConfirmedAfterTrigger ==
    [][ (pc = "na_scan" /\ i <= Len(lines) /\ lines[i].recv) =>
          IF BlockConfirmed(lines, i)
          THEN /\ Appended(nasdaq_alerts, nasdaq_alerts')
               /\ nasdaq_alerts'[Len(nasdaq_alerts')] = BlockAlert(lines, i)
          ELSE nasdaq_alerts' = nasdaq_alerts ]_vars

C11_Witness ==
    /\ pc = "na_done"
    /\ Len(nasdaq_alerts) = Cardinality(ConfirmedPos(lines))
    /\ \E p \in TriggerPos(lines) \ ConfirmedPos(lines) :
        /\ lines[p].conf /\ lines[p].hasTrue
        /\ \E q \in BlockLines(lines, p) : lines[q].conf /\ ~lines[q].hasTrue
        /\ \E q \in ConfirmedPos(lines) : q > p

\* the scan loop from line k on, started with buffer dq
RECURSIVE AlertsFrom(_, _, _)
AlertsFrom(ls, k, dq) ==
    IF k > Len(ls) THEN dq
    ELSE IF ls[k].recv
         THEN LET b == ScanBlock(ls, k + 1, "", FALSE)
              IN AlertsFrom(ls, b.j,
                            IF b.confirmed
                            THEN DequeAppend(dq, AlertMsg(AlertTicker(ls[k]), FormattedDt(ls[k]), b.url))
                            ELSE dq)
         ELSE AlertsFrom(ls, k + 1, dq)

\* C12: the buffer update_nasdaq_alerts returns is a function of the lines it
\* read alone, whatever the buffer held when it was called: a second call on
\* the same lines returns the same alerts.
C12_FullRecompute ==
    pc = "na_done" => nasdaq_alerts = AlertsFrom(lines, 1, <<>>)

C12_Witness ==
    /\ pc = "na_done"
    /\ lines # <<>>
    /\ Len(before) >= 2
    /\ nasdaq_alerts # <<>>
    /\ nasdaq_alerts # before

(***************************************************************************)
(* Vocabulary of the properties of the change tracking                     *)
(***************************************************************************)
\* a tick of either table has just observed `grouped` at time `now`
TickDone == pc \in {"cd_done", "th_done"}

\* the dict the tick that has just run keeps its entries in
Tracked == IF pc = "th_done" THEN top_holdings_changes ELSE broker_changes

\* the rows of the snapshot the tick observed
Observations == { grouped[k] : k \in 1..Len(grouped) }

IsActive(e) == e.last_change_time # None

Baseline(e) == <<e.baseline_quantity, e.baseline_value>>

Delta(e) == <<e.delta_quantity, e.delta_value>>

\* the entry was active at entry of the tick and 60 seconds or more have passed
ResetDue(e, t) == IsActive(e) /\ t - e.last_change_time >= 60

\* C13: after every observation an active entry's stored delta is
\* (current quantity - baseline quantity, current value - baseline value), and
\* the baseline of an entry that existed before the observation changes only
\* when the observation is a decay-reset (so it is frozen while the entry is
\* active)
C13_DeltaIsCurrentMinusBaseline ==
    TickDone =>
      \A r \in Observations :
        LET e == Tracked[r.key]
        IN  /\ IsActive(e) =>
                 Delta(e) = <<r.qty - e.baseline_quantity, r.val - e.baseline_value>>
            /\ (r.key \in DOMAIN before /\ Baseline(e) # Baseline(before[r.key]))
                 => ResetDue(before[r.key], now)
            /\ r.key \notin DOMAIN before => Baseline(e) = <<r.qty, r.val>>

\* an entry that was active is observed again with other values before it
\* decays: its delta is stored anew against the same baseline
C13_Witness ==
    /\ TickDone
    /\ \E r \in Observations :
         /\ r.key \in DOMAIN before
         /\ IsActive(before[r.key])
         /\ IsActive(Tracked[r.key])
         /\ Delta(Tracked[r.key]) # Delta(before[r.key])
         /\ Delta(Tracked[r.key]) # <<0, 0>>
         /\ Baseline(Tracked[r.key]) = Baseline(before[r.key])
         /\ Baseline(Tracked[r.key]) # <<r.qty, r.val>>

\* C14: an observation of an entry that was active, made 60 seconds or more
\* after its changeStartedAt, leaves the entry with the observed (quantity,
\* value) as baseline, no changeStartedAt and zero deltas, whatever the
\* observed values are; an observation made less than 60 seconds after
\* changeStartedAt leaves the entry active
C14_DecayReset ==
    TickDone =>
      \A r \in Observations :
        (r.key \in DOMAIN before /\ IsActive(before[r.key])) =>
          IF now - before[r.key].last_change_time >= 60
          THEN /\ Baseline(Tracked[r.key]) = <<r.qty, r.val>>
               /\ Tracked[r.key].last_change_time = None
               /\ Delta(Tracked[r.key]) = <<0, 0>>
          ELSE IsActive(Tracked[r.key])

\* a decay-reset on an observation whose values differ both from the old
\* baseline and from the values seen last, exactly 60 seconds after activation
C14_Witness ==
    /\ TickDone
    /\ \E r \in Observations :
         /\ r.key \in DOMAIN before
         /\ IsActive(before[r.key])
         /\ now - before[r.key].last_change_time = 60
         /\ <<r.qty, r.val>> # Baseline(before[r.key])
         /\ <<r.qty - before[r.key].baseline_quantity,
              r.val - before[r.key].baseline_value>> # Delta(before[r.key])
         /\ ~IsActive(Tracked[r.key])
         /\ Baseline(Tracked[r.key]) = <<r.qty, r.val>>

\* C15: the first observation of a key creates an inactive entry whose baseline
\* is the observed values and whose deltas are zero; an inactive entry becomes
\* active exactly on an observation whose quantity or value differs from its
\* baseline, and changeStartedAt is then that observation's time; an entry that
\* stays active keeps the changeStartedAt it had
C15_ActivationRule ==
    TickDone =>
      \A r \in Observations :
        LET e == Tracked[r.key]
        IN  IF r.key \notin DOMAIN before
            THEN /\ ~IsActive(e)
                 /\ Baseline(e) = <<r.qty, r.val>>
                 /\ Delta(e) = <<0, 0>>
            ELSE IF ~IsActive(before[r.key])
            THEN /\ IsActive(e) <=> <<r.qty, r.val>> # Baseline(before[r.key])
                 /\ IsActive(e) => e.last_change_time = now
            ELSE IsActive(e) => e.last_change_time = before[r.key].last_change_time

\* one tick activates an entry whose value alone changed, while another entry,
\* activated earlier and observed with new values, keeps its older stamp
C15_Witness ==
    /\ TickDone
    /\ \E r, o \in Observations :
         /\ r.key \in DOMAIN before
         /\ ~IsActive(before[r.key])
         /\ r.qty = before[r.key].baseline_quantity
         /\ r.val # before[r.key].baseline_value
         /\ Tracked[r.key].last_change_time = now
         /\ o.key \in DOMAIN before
         /\ IsActive(before[o.key])
         /\ Tracked[o.key].last_change_time = before[o.key].last_change_time
         /\ Delta(Tracked[o.key]) # Delta(before[o.key])

\* a delta annotation is part of the row's quantity or value text
DeltaShown(x) == x.qty_delta # <<>> \/ x.val_delta # <<>>

\* C16: an entry is active if and only if a delta is shown for it: in every
\* state an active entry of either dict has a non-zero quantity or value delta,
\* and in the rows of a tick the active rows are exactly the rows that show a
\* delta
C16_ActiveIffDeltaShown ==
    /\ \A k \in DOMAIN broker_changes :
         IsActive(broker_changes[k]) => Delta(broker_changes[k]) # <<0, 0>>
    /\ \A k \in DOMAIN top_holdings_changes :
         IsActive(top_holdings_changes[k]) => Delta(top_holdings_changes[k]) # <<0, 0>>
    /\ TickDone => \A j \in 1..Len(rows) : rows[j].active <=> DeltaShown(rows[j])

\* C17: in the rows a tick presents, every active entry comes before every
\* inactive entry, and of two active entries the one with the larger
\* changeStartedAt comes first
C17_ActiveFirstMostRecentFirst ==
    TickDone =>
      /\ { rows[j].key : j \in 1..Len(rows) } = { r.key : r \in Observations }
      /\ Len(rows) = Len(grouped)
      /\ \A a, b \in 1..Len(rows) :
           a < b =>
             LET ea == Tracked[rows[a].key]
                 eb == Tracked[rows[b].key]
             IN  /\ IsActive(eb) => IsActive(ea)
                 /\ (IsActive(ea) /\ IsActive(eb))
                      => ea.last_change_time >= eb.last_change_time

\* the sort moved a row: the second row of the snapshot was activated after
\* the first one and is presented first
C17_Witness ==
    /\ TickDone
    /\ Len(rows) = 2
    /\ rows[1].key = grouped[2].key
    /\ IsActive(Tracked[rows[1].key])
    /\ IsActive(Tracked[rows[2].key])
    /\ Tracked[rows[1].key].last_change_time > Tracked[rows[2].key].last_change_time

\* the keys of the rows of a data frame
FrameKeys(g) == { g[k].key : k \in 1..Len(g) }

\* C18: no step removes a key from broker_changes or top_holdings_changes, and
\* a step changes the entry of an existing key only if it is a tick of that
\* dict's table whose snapshot contains the key: a key absent from the
\* snapshot keeps its baseline, deltas and changeStartedAt, whatever other
\* keys are observed
C18_EntriesNeverRemoved ==
    [][ /\ DOMAIN broker_changes \subseteq DOMAIN broker_changes'
        /\ DOMAIN top_holdings_changes \subseteq DOMAIN top_holdings_changes'
        /\ \A k \in DOMAIN broker_changes :
             broker_changes'[k] # broker_changes[k]
               => (pc' = "cd_done" /\ k \in FrameKeys(grouped'))
        /\ \A k \in DOMAIN top_holdings_changes :
             top_holdings_changes'[k] # top_holdings_changes[k]
               => (pc' = "th_done" /\ k \in FrameKeys(grouped'))
        /\ pc' = "cd_done" => DOMAIN broker_changes' = DOMAIN broker_changes \cup FrameKeys(grouped')
        /\ pc' = "th_done" =>
             DOMAIN top_holdings_changes' = DOMAIN top_holdings_changes \cup FrameKeys(grouped')
      ]_vars

\* a tick observes one key, whose entry it changes, while the active entry of
\* a key missing from the snapshot stays as it was
C18_Witness ==
    /\ pc = "cd_done"
    /\ \E a \in DOMAIN before, r \in Observations :
         /\ a \notin FrameKeys(grouped)
         /\ IsActive(before[a])
         /\ broker_changes[a] = before[a]
         /\ r.key \in DOMAIN before
         /\ broker_changes[r.key] # before[r.key]

\* C19: a tick that finds no log file is a zero-event tick:
\* update_pending_orders returns with the pending-order map exactly as it was
\* at entry, and update_nasdaq_alerts returns an empty alert list
C19_AbsentLogIsZeroEventTick ==
    /\ (pc = "po_done" /\ ~log_exists) => pending_orders = before
    /\ (pc = "na_done" /\ ~log_exists) => nasdaq_alerts = <<>>

\* update_pending_orders has returned on an absent file with two orders still
\* pending, while the alert buffer still holds the alert of the earlier log
C19_Witness ==
    /\ pc = "po_done"
    /\ ~log_exists
    /\ Cardinality(DOMAIN before) = 2
    /\ pending_orders = before
    /\ nasdaq_alerts # <<>>

(***************************************************************************)
(* Vocabulary of the properties of build_pending_orders_table              *)
(***************************************************************************)
\* the (action, ticker) pairs present in the pending map
Pairs == { <<k[1], k[2]>> : k \in DOMAIN pending_orders }

\* the pending entries of a pair
PairKeys(pr) == { k \in DOMAIN pending_orders : k[1] = pr[1] /\ k[2] = pr[2] }

\* the scheduled times of a pair that are dates
ParseableTimes(pr) ==
    { pending_orders[k].time : k \in { j \in PairKeys(pr) : ValidStamp(pending_orders[j].time) } }

\* the rows of the table that stand for the pair
RowsOf(pr) == { r \in BagToSet(table) : r.ticker = pr[2] /\ r.action = Capitalize(pr[1]) }

\* C20: the grouped pending-order view has exactly one row per (action, ticker)
\* pair present in the pending map and no row for any other pair; the row's
\* count is the number of pending entries of the pair, its broker label is
\* "N Brokers" when the pair has N > 1 distinct brokers and the label of the
\* single broker otherwise, and its time is the earliest of the pair's
\* scheduled times that are dates, empty when none is
C20_OneRowPerActionTicker ==
    pc = "pt_done" =>
      /\ \A r \in BagToSet(table) : r = PlaceholderRow \/ \E pr \in Pairs : r \in RowsOf(pr)
      /\ \A pr \in Pairs :
           /\ Cardinality(RowsOf(pr)) = 1
           /\ \A r \in RowsOf(pr) :
                LET brokers == { k[3] : k \in PairKeys(pr) }
                    n == Cardinality(brokers)
                IN  /\ CopiesIn(r, table) = 1
                    /\ r.count = Decimal(Cardinality(PairKeys(pr)))
                    /\ r.brokers = IF n > 1 THEN Decimal(n) \o <<" ", "Brokers">>
                                   ELSE <<Capitalize(CHOOSE b \in brokers : TRUE)>>
                    /\ IF ParseableTimes(pr) = {}
                       THEN r.time = <<>>
                       ELSE \E t \in ParseableTimes(pr) :
                              /\ \A u \in ParseableTimes(pr) : StampLE(t, u)
                              /\ r.time = LStripZero(Strftime(t))

\* a table of three rows: one pair with two brokers and two dates, one pair
\* with two brokers of which one time is not a date, one pair with one broker
C20_Witness ==
    /\ pc = "pt_done"
    /\ BagCardinality(table) = 3
    /\ \E p1, p2, p3 \in Pairs :
         /\ Cardinality(ParseableTimes(p1)) = 2
         /\ Cardinality(PairKeys(p2)) = 2 /\ Cardinality(ParseableTimes(p2)) = 1
         /\ Cardinality(PairKeys(p3)) = 1
         /\ \E r \in RowsOf(p3) : r.brokers = <<"Acme">>
         /\ \E r \in RowsOf(p2) : r.brokers = <<"2", " ", "Brokers">> /\ r.time # <<>>

\* the block opened by trigger line p, taken out of the log: the trigger line
\* and the lines after it up to the next trigger line or the end
BlockOf(ls, p) == SubSeq(ls, p, p + Cardinality(BlockLines(ls, p)))

\* the URL lines among the lines that follow the trigger line of block b
UrlLinesOf(b) == { q \in 2..Len(b) : b[q].urlmark }

\* the text of the last URL line of block b, "" when it has none
LastUrlOf(b) ==
    IF UrlLinesOf(b) = {} THEN ""
    ELSE b[CHOOSE q \in UrlLinesOf(b) : \A r \in UrlLinesOf(b) : r <= q].url

\* the OR of the flags of the confirmation lines that follow the trigger line
OrOfConfirmationsOf(b) == \E q \in 2..Len(b) : b[q].conf /\ b[q].hasTrue

CoreMaps == <<pending_orders, nasdaq_alerts, broker_changes, top_holdings_changes>>

\* C22: in every interleaving of the background threads with the refresh
\* loop, a step that writes selected_broker or command_history (a step of a
\* thread) changes none of pending_orders, nasdaq_alerts, broker_changes and
\* top_holdings_changes and does not move the refresh loop, and a step that
\* changes one of the four is a step of the refresh loop that writes neither
\* selected_broker nor command_history
C22_ThreadsLeaveCoreMapsAlone ==
    [][ /\ threadVars' # threadVars => (CoreMaps' = CoreMaps /\ pc' = pc)
        /\ CoreMaps' # CoreMaps =>
             (threadVars' = threadVars /\ (pc # "idle" \/ pc' # "idle")) ]_vars

\* both threads have written while update_nasdaq_alerts is in its loop, and
\* three of the structures hold entries
C22_Witness ==
    /\ pc = "na_scan"
    /\ i > 1
    /\ selected_broker = "Zeta"
    /\ command_history # <<>>
    /\ pending_orders # EmptyOrders
    /\ nasdaq_alerts # <<>>
    /\ DOMAIN broker_changes # {}

\* MM/DD/YYYY hh:mm AM/PM with two digits for month and day and the leading
\* zero of the hour stripped
RenderedHourStripped(st) ==
    Two(st.month) \o <<"/">> \o Two(st.day) \o <<"/">> \o Four(st.year) \o <<" ">>
        \o LStripZero(Two(Hour12(st.hour))) \o <<":">> \o Two(st.minute) \o <<" ">>
        \o (IF st.hour < 12 THEN <<"A", "M">> ELSE <<"P", "M">>)

\* C23: the timestamp of every alert update_nasdaq_alerts returns is its
\* trigger line's date-time rendered as MM/DD/YYYY hh:mm AM/PM, month and day
\* with two digits and the hour without leading zero
C23_HourZeroStripped ==
    pc = "na_done" =>
      \A k \in 1..Len(nasdaq_alerts) :
        \E p \in ConfirmedPos(lines) :
          /\ ValidStamp(lines[p].stamp)
          /\ nasdaq_alerts[k].ticker = AlertTicker(lines[p])
          /\ nasdaq_alerts[k].on = RenderedHourStripped(lines[p].stamp)

\* C24: the displayed delta is transient: an entry that was activated at time
\* t is inactive after the first observation made at a time >= t + 60 seconds,
\* and until then every observation leaves t as it is, whatever values are
\* observed: changes between t and t + 60 do not extend the active period
C24_DeltaIsTransient ==
    TickDone =>
      \A r \in Observations :
        (r.key \in DOMAIN before /\ IsActive(before[r.key])) =>
          LET t == before[r.key].last_change_time
          IN  IF now >= t + 60
              THEN ~IsActive(Tracked[r.key])
              ELSE Tracked[r.key].last_change_time = t

\* one tick, two entries: one was activated 60 seconds ago and ends inactive
\* although its values changed again on this tick; the other was activated 30
\* seconds ago, changed again and keeps its activation time
C24_Witness ==
    /\ TickDone
    /\ \E r, o \in Observations :
         /\ r.key \in DOMAIN before /\ o.key \in DOMAIN before
         /\ before[r.key].last_change_time = now - 60
         /\ <<r.qty - before[r.key].baseline_quantity,
              r.val - before[r.key].baseline_value>> # Delta(before[r.key])
         /\ ~IsActive(Tracked[r.key])
         /\ before[o.key].last_change_time = now - 30
         /\ Delta(Tracked[o.key]) # Delta(before[o.key])
         /\ Tracked[o.key].last_change_time = now - 30

\* C25: after every call of load_app_logs on a log file of n lines, the list
\* it returns is the last min(5, n) lines of the file, each once and in file
\* order
C25_LastFiveLinesOfFile ==
    (pc = "ll_done" /\ log_exists) =>
      LET n == Len(app_log)
      IN  last_logs = SubSeq(app_log, n - Min2(5, n) + 1, n)

\* C26: on a log that is only appended to, after every tick the pending keys
\* are the keys of the Scheduled lines of the current log that are not keys of
\* Sent-command lines of the current log, wherever those lines stand and
\* however many ticks ran before
C26_PendingIsScheduledMinusSent ==
    pc = "po_done" =>
      DOMAIN pending_orders =
        { K \in Keys : HasSched(K, lines) } \ { K \in Keys : HasSent(K, lines) }

\* the Sent-command line of a key stands before its Scheduled line: the key is
\* not pending, while another key of the same Scheduled line is
C26_Witness ==
    /\ pc = "po_done"
    /\ pending_orders # EmptyOrders
    /\ \E K \in Keys :
         /\ K \notin DOMAIN pending_orders
         /\ \E p \in SentAt(K, lines) : \E qn \in SchedAt(K, lines) : p < qn[1]

\* the map a second run of the two passes on the lines just read would leave
SecondRun == CompletionPass(ScheduledPass(pending_orders, lines), lines)

\* C27: a tick of update_pending_orders is idempotent: run again on the same
\* log, from the map the first run left, it leaves the same keys with the same
\* quantities and times, whatever map the first run started from
C27_TickIsIdempotent ==
    pc = "po_done" => SecondRun = pending_orders

\* a tick that started from a non-empty map, added a key and removed a key
C27_Witness ==
    /\ pc = "po_done"
    /\ before # EmptyOrders
    /\ (DOMAIN pending_orders) \ (DOMAIN before) # {}
    /\ (DOMAIN before) \ (DOMAIN pending_orders) # {}

\* C28: no pending order has an empty broker, in any state, so a Sent-command
\* line without a broker token removes nothing: every key a tick removed is
\* the key of a Sent-command line that carries a broker token
C28_NoEmptyBrokerKey ==
    /\ \A K \in DOMAIN pending_orders : K[3] # ""
    /\ pc = "po_done" =>
         \A K \in (DOMAIN before) \ (DOMAIN pending_orders) :
            \E p \in SentAt(K, lines) : lines[p].broker # ""

\* the log read holds a Scheduled line with a blank broker and a Sent-command
\* line without broker token for the same action and ticker, and an order of
\* that action and ticker was pending before the tick and still is
C28_Witness ==
    /\ pc = "po_done"
    /\ \E p, q \in 1..Len(lines) : \E K \in DOMAIN pending_orders :
        /\ lines[p].kind = "sent" /\ lines[p].broker = ""
        /\ lines[q].kind = "sched" /\ lines[q].broker = ""
        /\ K[1] = lines[p].action /\ K[2] = Upper(lines[p].ticker)
        /\ K[1] = lines[q].action /\ K[2] = Upper(lines[q].tickers[1])
        /\ K \in DOMAIN before

\* C29: in every state an inactive entry (last_change_time unset) of either
\* dict has both deltas 0, and after a tick every observed entry that the
\* observation left inactive has the observed (quantity, value) as baseline
C29_InactiveEntryIsAtBaseline ==
    /\ \A k \in DOMAIN broker_changes :
         ~IsActive(broker_changes[k]) => Delta(broker_changes[k]) = <<0, 0>>
    /\ \A k \in DOMAIN top_holdings_changes :
         ~IsActive(top_holdings_changes[k]) => Delta(top_holdings_changes[k]) = <<0, 0>>
    /\ TickDone =>
         \A o \in Observations :
            ~IsActive(Tracked[o.key]) => Baseline(Tracked[o.key]) = <<o.qty, o.val>>

\* an entry that was active with a change showing is observed after its decay
\* time with the changed values, and is inactive on a new baseline
C29_Witness ==
    /\ TickDone
    /\ \E o \in Observations :
        /\ o.key \in DOMAIN before
        /\ IsActive(before[o.key])
        /\ ~IsActive(Tracked[o.key])
        /\ Baseline(before[o.key]) # <<o.qty, o.val>>

\* the distinct brokers stored in the pending entries of a pair
BrokersOf(pr) == { pending_orders[k].broker : k \in PairKeys(pr) }

\* C30: in every state the broker stored in a pending entry is the broker of
\* its key, so in the grouped view the count of each (action, ticker) group is
\* its number of distinct brokers, and the group's label is "N Brokers", N
\* being the count, exactly when the count is greater than 1
C30_CountIsDistinctBrokers ==
    /\ \A k \in DOMAIN pending_orders : pending_orders[k].broker = k[3]
    /\ pc = "pt_done" =>
         \A pr \in Pairs : \A r \in RowsOf(pr) :
            /\ r.count = Decimal(Cardinality(BrokersOf(pr)))
            /\ (r.brokers = r.count \o <<" ", "Brokers">>) <=> (r.count # Decimal(1))

\* the view shows a group of two brokers labelled "2 Brokers" and a group of
\* one broker labelled with the broker
C30_Witness ==
    /\ pc = "pt_done"
    /\ \E p1, p2 \in Pairs :
         /\ Cardinality(BrokersOf(p1)) = 2
         /\ \E r \in RowsOf(p1) : r.count = <<"2">> /\ r.brokers = <<"2", " ", "Brokers">>
         /\ Cardinality(BrokersOf(p2)) = 1
         /\ \E r \in RowsOf(p2) : r.count = <<"1">> /\ r.brokers = <<"Acme">>

====
